---- MODULE Spec2Model ----
(***************************************************************************)
(* A model of the growable Array of src/src/array (mod.rs, drain.rs,       *)
(* iter.rs): the raw buffer with its initialized prefix, the Array         *)
(* primitives, the range-removing Drain and the owning IntoIter.           *)
(*                                                                         *)
(* Buffer slot i of the code (idx_to_ptr(i)) is buf[i + 1] here.  Every    *)
(* ptr::read and drop_in_place of the code is logged with the index it     *)
(* was applied to, so that "exactly once" can be stated; every call made   *)
(* to the allocator is logged with the layouts it was given.               *)
(***************************************************************************)
EXTENDS Integers, Sequences, FiniteSets

\* ---------------------------------------------------------------- bounds
MaxLen == 3
MaxVal == 2
MaxSkip == 1
\* the width of usize
UsizeBits == 4

Val == 1..MaxVal
\* the bits of a slot that was never written, or that lies outside the buffer
Garbage == 0
\* no value: Option::None, or a call that takes no such argument
NoVal == -1
\* the one value of a zero-sized type
Unit == 1
\* the array was not built by collecting a sequence, or was changed since
NoInput == <<NoVal>>

\* usize::MAX and isize::MAX
UsizeMax == 2 ^ UsizeBits - 1
IsizeMax == 2 ^ (UsizeBits - 1) - 1

VARIABLES
    zst,      \* size_of::<T>() == 0
    mode,     \* "array" | "drain" | "iter" | "dead" | "undefined" | "aborted"
    buf,      \* Array.buf: the slots, Len(buf) is the capacity
    len,      \* Array.len
    dr,       \* the live Drain: hole_start, hole_end, start, end
    itStart,  \* IntoIter.start
    op,       \* the last call and what it returned
    orig,     \* contents [0, len) when the last call (or the iterator) began
    out,      \* values handed to the caller by the current iterator
    reads,    \* indices moved out with ptr::read by the current call/iterator
    dropped,  \* indices given to drop_in_place by the current call/iterator
    used,     \* which consuming methods the current iterator has been asked
    input,    \* the sequence pushed onto the empty array, while nothing but
              \* pushes (and then pops or an owning iterator) came after
    al,       \* the allocator as this array has used it: the calls of the
              \* last operation, the block held, the breaches of its protocol
    touch,    \* the slots the last Array primitive read and wrote
    room      \* pushes still covered by the reserve that came before them

vars == <<zst, mode, buf, len, dr, itStart, op, orig, out, reads, dropped, used,
          input, al, touch, room>>

\* ---------------------------------------------------------------- helpers
Min(a, b) == IF a < b THEN a ELSE b
Max(a, b) == IF a > b THEN a ELSE b

cap == Len(buf)

\* the values of T
Elems == IF zst THEN {Unit} ELSE Val
SeqsUpTo(n) == UNION {[1..k -> Elems] : k \in 0..n}

RECURSIVE Pow2From(_, _)
Pow2From(p, n) == IF p >= n THEN p ELSE Pow2From(2 * p, n)
\* usize::next_power_of_two: the smallest power of two >= n (1 for n = 0)
NextPow2(n) == Pow2From(1, n)

Fill(n) == [i \in 1..n |-> Garbage]

\* the bits found at slot i of buffer b; outside the buffer they are anything
ReadSlot(b, i) == IF i >= 0 /\ i < Len(b) THEN b[i + 1] ELSE Garbage

\* ptr.write(v) at slot i; a write outside the buffer does not land in it
WriteSlot(b, i, v) == [j \in 1..Len(b) |-> IF j = i + 1 THEN v ELSE b[j]]

\* buf is [MaybeUninit<T>]: a slot at or past the length l holds no element,
\* the bits left in it by a move or a drop mean nothing; a zero-sized slot
\* has no bits
Forget(b, l) ==
    [j \in 1..Len(b) |-> IF zst \/ j <= l THEN b[j] ELSE Garbage]

\* core::ptr::copy(from, to, count): memmove of count slots
PtrCopy(b, from, to, count) ==
    [j \in 1..Len(b) |->
        IF j - 1 >= to /\ j - 1 < to + count
        THEN ReadSlot(b, from + (j - 1 - to))
        ELSE b[j]]

\* the copy touches a slot outside the allocation
CopyOutOfBounds(b, from, to, count) ==
    count > 0 /\ (from + count > Len(b) \/ to + count > Len(b))

\* the slots a copy of count slots reads from, or writes to, starting at at
CopySlots(at, count) == at..(at + count - 1)

\* Undefined behaviour has two outcomes a build produces: the call carries on
\* with whatever bits it found, or the process is stopped (unsafe-precondition
\* check of a debug build, allocator corruption check, fault).
Outcomes(ub) == IF ub THEN {"run", "abort"} ELSE {"run"}

\* A call that ran into undefined behaviour and carried on leaves an array of
\* which nothing more is said: no later call is modelled on it.
After(ub) == IF ub THEN "undefined" ELSE "array"

\* value_slice / deref: the slots [0, len) seen as a slice
Contents == [i \in 1..len |-> ReadSlot(buf, i - 1)]

NoDrain == [hole_start |-> 0, hole_end |-> 0, start |-> 0, end |-> 0]

\* cap0 is the capacity when the call was made
OpRec(name, a, b, res, val) ==
    [name |-> name, a |-> a, b |-> b, res |-> res, val |-> val, dec |-> <<>>,
     cap0 |-> Len(buf)]

\* the pushed sequence after one more sequence is pushed
Pushed(seq) ==
    IF len = 0 THEN seq
    ELSE IF input # NoInput /\ Len(input) = len THEN input \o seq
    ELSE NoInput

\* the pushed sequence survives a call that leaves the contents alone, unless
\* pops have begun
KeepInput == IF input # NoInput /\ Len(input) = len THEN input ELSE NoInput

\* what an Array method leaves in the bookkeeping of the model
Logs(o, rd, dp) ==
    /\ op' = o
    /\ orig' = Contents
    /\ out' = <<>>
    /\ reads' = rd
    /\ dropped' = dp
    /\ used' = {}

\* ---------------------------------------------------------------- allocator
\* one call of the Allocator trait: old and new are the lengths the layouts
\* were built for (layout_for_len); allocate has no old layout, deallocate no
\* new one
Call(fn, old, new) == [fn |-> fn, old |-> old, new |-> new]

\* the allocator before the array asked it for anything; blk is the length
\* the block held by the array was last sized for
NoAlloc ==
    [calls |-> <<>>, blk |-> NoVal, bad |-> {}, grown |-> FALSE,
     shrunk |-> FALSE]

\* the allocator after one call: a block is held from allocate on, resized by
\* grow and shrink, and given back by deallocate; grow, shrink and deallocate
\* must be handed a block that is held, with the layout it was last sized for
ApplyCall(a, c) ==
    IF c.fn = "allocate"
    THEN [a EXCEPT !.blk = c.new, !.grown = TRUE, !.shrunk = FALSE,
                   !.bad = IF a.blk # NoVal THEN @ \cup {"leak"} ELSE @]
    ELSE IF c.fn = "grow"
    THEN [a EXCEPT !.blk = c.new, !.grown = TRUE, !.shrunk = FALSE,
                   !.bad = IF a.blk # c.old \/ c.new < c.old
                           THEN @ \cup {"grow"} ELSE @]
    ELSE IF c.fn = "shrink"
    THEN [a EXCEPT !.blk = c.new, !.shrunk = TRUE,
                   !.bad = IF a.blk # c.old \/ c.new > c.old
                           THEN @ \cup {"shrink"} ELSE @]
    ELSE [a EXCEPT !.blk = NoVal,
                   !.bad = IF a.blk # c.old THEN @ \cup {"deallocate"} ELSE @]

RECURSIVE ApplyCalls(_, _)
ApplyCalls(a, cs) ==
    IF cs = <<>> THEN a ELSE ApplyCalls(ApplyCall(a, Head(cs)), Tail(cs))

\* the allocator a after an operation that made the calls cs
Called(a, cs) == ApplyCalls([a EXCEPT !.calls = cs], cs)

\* no slot touched
NoTouch == [rd |-> {}, wr |-> {}, live |-> {}, capAt |-> 0]

\* the slots rd were read or dropped and the slots wr written while the
\* elements were the slots [0, l) and the capacity c
Touch(rd, wr, l, c) == [rd |-> rd, wr |-> wr, live |-> 0..(l - 1), capAt |-> c]

\* what an operation leaves in the allocator, the access log and the count
\* of reserved pushes; the element type does not change
Ghost(t, cs, r) ==
    /\ touch' = t
    /\ al' = Called(al, cs)
    /\ room' = r
    /\ zst' = zst

Abort(name, a, b) ==
    /\ mode' = "aborted"
    /\ Logs(OpRec(name, a, b, "Abort", NoVal), <<>>, <<>>)
    /\ Ghost(NoTouch, <<>>, 0)
    /\ UNCHANGED <<buf, len, dr, itStart, input>>

\* ---------------------------------------------------------------- Array
\* new_in: a zero-sized T gets the capacity usize::MAX and no allocation
NewBuf(z) == IF z THEN [i \in 1..UsizeMax |-> Unit] ELSE <<>>

\* grow_to_cap: allocate or grow; the old slots keep their bits
GrowToCap(b, new_cap) ==
    [i \in 1..new_cap |-> IF i <= Len(b) THEN b[i] ELSE Garbage]

\* the allocator call of grow_to_cap
GrowCalls(b, new_cap) ==
    IF Len(b) = 0 THEN <<Call("allocate", NoVal, new_cap)>>
    ELSE <<Call("grow", Len(b), new_cap)>>

\* reserve(additional) as a function of the buffer and the length
Reserve(b, l, additional) ==
    IF Len(b) >= l + additional THEN b
    ELSE GrowToCap(b, NextPow2(l + additional))

\* the allocator calls of reserve(additional)
ReserveCalls(b, l, additional) ==
    IF Len(b) >= l + additional THEN <<>>
    ELSE GrowCalls(b, NextPow2(l + additional))

\* push_within_capacity_unchecked writing the slot below the first free one
PushUncheckedMut(b, l, v) == WriteSlot(b, Max(l - 1, 0), v)

\* push_within_capacity_unchecked
PushUnchecked(b, l, v) == WriteSlot(b, l, v)

Init ==
    /\ zst \in BOOLEAN
    /\ mode = "array"
    /\ buf = NewBuf(zst)
    /\ len = 0
    /\ dr = NoDrain
    /\ itStart = 0
    /\ op = OpRec("new", NoVal, NoVal, "Ok", NoVal)
    /\ orig = <<>>
    /\ out = <<>>
    /\ reads = <<>>
    /\ dropped = <<>>
    /\ used = {}
    /\ input = NoInput
    /\ al = NoAlloc
    /\ touch = NoTouch
    /\ room = 0

\* the amounts a caller may ask reserve for that do not fit beside the length
HugeAdds == {IsizeMax, UsizeMax}

\* reserve(additional).  self.len + additional and next_power_of_two overflow
\* in usize: a build with overflow checks panics there, a build without wraps
\* the sum and gets 0 for the power of two.  Layout::array fails above
\* isize::MAX bytes and the unwrap panics.
ReserveOp(additional) ==
    /\ mode = "array"
    /\ additional \in HugeAdds \/ len + additional <= MaxLen
    /\ LET sum == len + additional
           new_min == sum % (UsizeMax + 1)
           needs == cap < new_min
           overflows == sum > UsizeMax \/ (needs /\ new_min > IsizeMax + 1)
           new_cap == IF new_min > IsizeMax + 1 THEN 0 ELSE NextPow2(new_min)
           \* grow handed a new layout smaller than the old one
           ub == needs /\ cap > 0 /\ new_cap < cap
           panic == /\ Logs(OpRec("reserve", additional, NoVal, "Panic", NoVal),
                            <<>>, <<>>)
                    /\ Ghost(NoTouch, <<>>, 0)
                    /\ input' = KeepInput
                    /\ UNCHANGED <<mode, buf, len, dr, itStart>>
       IN  \E build \in IF overflows THEN {"checked", "wrapping"} ELSE {"wrapping"} :
             IF build = "checked" THEN panic
             ELSE IF ~needs
             THEN /\ Logs(OpRec("reserve", additional, NoVal, "Ok", NoVal), <<>>, <<>>)
                  /\ Ghost(NoTouch, <<>>, additional)
                  /\ input' = KeepInput
                  /\ UNCHANGED <<mode, buf, len, dr, itStart>>
             ELSE IF new_cap > IsizeMax THEN panic
             ELSE \E o \in Outcomes(ub) :
                    IF o = "abort" THEN Abort("reserve", additional, NoVal)
                    ELSE /\ mode' = After(ub)
                         /\ buf' = GrowToCap(buf, new_cap)
                         /\ Logs(OpRec("reserve", additional, NoVal, "Ok", NoVal),
                                 <<>>, <<>>)
                         /\ Ghost(NoTouch, GrowCalls(buf, new_cap), additional)
                         /\ input' = KeepInput
                         /\ UNCHANGED <<len, dr, itStart>>

\* push: b holds the pushes a reserve before it still covers
Push(v) ==
    /\ mode = "array"
    /\ len < MaxLen
    /\ buf' = PushUnchecked(Reserve(buf, len, 1), len, v)
    /\ len' = len + 1
    /\ Logs(OpRec("push", NoVal, room, "Ok", v), <<>>, <<>>)
    /\ Ghost(Touch({}, {len}, len, Len(Reserve(buf, len, 1))),
             ReserveCalls(buf, len, 1), Max(room - 1, 0))
    /\ input' = Pushed(<<v>>)
    /\ UNCHANGED <<mode, dr, itStart>>

PushWithinCapacity(v) ==
    /\ mode = "array"
    /\ len = cap \/ len < MaxLen
    /\ IF len = cap
       THEN /\ Logs(OpRec("push_within_capacity", NoVal, NoVal, "Err", v), <<>>, <<>>)
            /\ Ghost(NoTouch, <<>>, 0)
            /\ UNCHANGED <<buf, len>>
       ELSE /\ buf' = PushUnchecked(buf, len, v)
            /\ len' = len + 1
            /\ Logs(OpRec("push_within_capacity", NoVal, NoVal, "Ok", v), <<>>, <<>>)
            /\ Ghost(Touch({}, {len}, len, cap), <<>>, 0)
    /\ input' = NoInput
    /\ UNCHANGED <<mode, dr, itStart>>

\* out collects what a run of consecutive pops returned
Pop ==
    /\ mode = "array"
    /\ LET popped == IF op.name = "pop" THEN out ELSE <<>>
       IN  IF len = 0
           THEN /\ op' = OpRec("pop", NoVal, NoVal, "None", NoVal)
                /\ out' = popped
                /\ reads' = <<>>
                /\ Ghost(NoTouch, <<>>, 0)
                /\ UNCHANGED <<buf, len>>
           ELSE /\ len' = len - 1
                /\ op' = OpRec("pop", NoVal, NoVal, "Some", ReadSlot(buf, len - 1))
                /\ out' = Append(popped, ReadSlot(buf, len - 1))
                /\ reads' = <<len - 1>>
                /\ Ghost(Touch({len - 1}, {}, len, cap), <<>>, 0)
                /\ buf' = Forget(buf, len - 1)
    /\ orig' = Contents
    /\ dropped' = <<>>
    /\ used' = {}
    /\ UNCHANGED <<mode, dr, itStart, input>>

\* the shift of remove with the count taken before the length was lowered
\* and the source not moved past the removed slot
RemoveShiftMut(b, idx, l) == PtrCopy(b, idx, idx, l - idx + 1)

\* the shift of remove (l is the length already lowered): the slots after
\* idx move one to the left
RemoveShift(b, idx, l) == PtrCopy(b, idx + 1, idx, l - idx)

Remove(idx) ==
    /\ mode = "array"
    /\ IF idx >= len
       THEN /\ Logs(OpRec("remove", idx, NoVal, "None", NoVal), <<>>, <<>>)
            /\ Ghost(NoTouch, <<>>, 0)
            /\ UNCHANGED <<buf, len>>
       ELSE /\ len' = len - 1
            /\ buf' = Forget(RemoveShift(buf, idx, len - 1), len - 1)
            /\ Logs(OpRec("remove", idx, NoVal, "Some", ReadSlot(buf, idx)),
                    <<idx>>, <<>>)
            /\ Ghost(Touch({idx} \cup CopySlots(idx + 1, len - 1 - idx),
                           CopySlots(idx, len - 1 - idx), len, cap), <<>>, 0)
    /\ input' = NoInput
    /\ UNCHANGED <<mode, dr, itStart>>

Insert(idx, value) ==
    /\ mode = "array"
    /\ idx > len \/ len < MaxLen
    /\ IF idx > len
       THEN /\ Logs(OpRec("insert", idx, NoVal, "Err", value), <<>>, <<>>)
            /\ Ghost(NoTouch, <<>>, 0)
            /\ input' = KeepInput
            /\ UNCHANGED <<mode, buf, len, dr, itStart>>
       ELSE LET b1 == Reserve(buf, len, 1)
                l1 == len + 1
                \* a copy of zero-sized slots moves no byte
                ub == ~zst /\ CopyOutOfBounds(b1, idx, idx + 1, l1 - idx)
            IN  \E o \in Outcomes(ub) :
                  IF o = "abort" THEN Abort("insert", idx, NoVal)
                  ELSE /\ mode' = After(ub)
                       /\ buf' = WriteSlot(PtrCopy(b1, idx, idx + 1, l1 - idx), idx, value)
                       /\ len' = l1
                       /\ Logs(OpRec("insert", idx, NoVal, "Ok", value), <<>>, <<>>)
                       /\ Ghost(Touch(CopySlots(idx, l1 - idx),
                                      CopySlots(idx + 1, l1 - idx) \cup {idx},
                                      len, Len(b1)),
                                ReserveCalls(buf, len, 1), 0)
                       /\ input' = NoInput
                       /\ UNCHANGED <<dr, itStart>>

Swap(a, b) ==
    /\ mode = "array"
    /\ IF a >= len \/ b >= len
       THEN /\ Logs(OpRec("swap", a, b, "Panic", NoVal), <<>>, <<>>)
            /\ Ghost(NoTouch, <<>>, 0)
            /\ input' = KeepInput
            /\ UNCHANGED buf
       ELSE /\ buf' = WriteSlot(WriteSlot(buf, a, ReadSlot(buf, b)), b, ReadSlot(buf, a))
            /\ Logs(OpRec("swap", a, b, "Ok", NoVal), <<>>, <<>>)
            /\ Ghost(Touch({a, b}, {a, b}, len, cap), <<>>, 0)
            /\ input' = NoInput
    /\ UNCHANGED <<mode, len, dr, itStart>>

SwapRemove(idx) ==
    /\ mode = "array"
    /\ IF idx >= len
       THEN /\ Logs(OpRec("swap_remove", idx, NoVal, "None", NoVal), <<>>, <<>>)
            /\ Ghost(NoTouch, <<>>, 0)
            /\ input' = KeepInput
            /\ UNCHANGED <<mode, buf, len, dr, itStart>>
       ELSE LET swap_with == len - 1
                \* copy_from_nonoverlapping of a slot onto itself when idx is
                \* the last; slots of no bytes do not overlap
                ub == ~zst /\ swap_with = idx
            IN  \E o \in Outcomes(ub) :
                  IF o = "abort" THEN Abort("swap_remove", idx, NoVal)
                  ELSE /\ mode' = After(ub)
                       /\ len' = len - 1
                       /\ buf' = Forget(PtrCopy(buf, swap_with, idx, 1), len - 1)
                       /\ Logs(OpRec("swap_remove", idx, NoVal, "Some", ReadSlot(buf, idx)),
                               <<idx>>, <<>>)
                       /\ Ghost(Touch({idx, swap_with}, {idx}, len, cap), <<>>, 0)
                       /\ input' = NoInput
                       /\ UNCHANGED <<dr, itStart>>

\* shrink_to_fit: nothing for a zero-sized T or a full buffer, else the
\* block is shrunk to the layout of len slots
ShrinkToFit ==
    /\ mode = "array"
    /\ buf' = IF zst \/ len = cap THEN buf ELSE [i \in 1..len |-> ReadSlot(buf, i - 1)]
    /\ Logs(OpRec("shrink_to_fit", NoVal, NoVal, "Ok", NoVal), <<>>, <<>>)
    /\ Ghost(NoTouch,
             IF zst \/ len = cap THEN <<>> ELSE <<Call("shrink", cap, len)>>, 0)
    /\ input' = KeepInput
    /\ UNCHANGED <<mode, len, dr, itStart>>

\* the loop of retain from cursor st.read on; p is the index at which the
\* predicate panics (p >= L: it never does), dec its answers
RECURSIVE RetainLoop(_, _, _, _)
RetainLoop(st, dec, p, L) ==
    IF st.read >= L THEN st
    ELSE IF st.read = p THEN [st EXCEPT !.panicked = TRUE]
    ELSE IF ~dec[st.read + 1]
    THEN RetainLoop([st EXCEPT !.dp = Append(@, st.read), !.read = @ + 1], dec, p, L)
    ELSE RetainLoop([st EXCEPT !.b = PtrCopy(@, st.read, st.write, 1),
                               !.write = @ + 1, !.read = @ + 1], dec, p, L)

\* a guard that only fixes the length and drops nothing
GuardDropMut(read, arr_len, dp) == dp

\* DropGuard::drop: drop [read, arr.len) and return the log
RECURSIVE GuardDrop(_, _, _)
GuardDrop(read, arr_len, dp) ==
    IF read < arr_len THEN GuardDrop(read + 1, arr_len, Append(dp, read)) ELSE dp

Retain(dec, p) ==
    /\ mode = "array"
    /\ LET st == RetainLoop([b |-> buf, read |-> 0, write |-> 0, dp |-> <<>>,
                             panicked |-> FALSE], dec, p, len)
           \* the normal exit sets arr.len = write before the guard runs
           arr_len == IF st.panicked THEN len ELSE st.write
           \* the predicate is shown every slot up to the one it panics on,
           \* the guard drops the rest
           seen == 0..(IF st.panicked THEN st.read ELSE st.read - 1)
           dp == GuardDrop(st.read, arr_len, st.dp)
       IN  /\ buf' = Forget(st.b, st.write)
           /\ len' = st.write
           /\ Logs([OpRec("retain", p, NoVal, IF st.panicked THEN "Panic" ELSE "Ok", NoVal)
                       EXCEPT !.dec = dec],
                   <<>>, dp)
           /\ Ghost(Touch(seen \cup {dp[i] : i \in 1..Len(dp)},
                          0..(st.write - 1), len, cap), <<>>, 0)
    /\ input' = NoInput
    /\ UNCHANGED <<mode, dr, itStart>>

\* Extend::extend: push every value of the sequence
RECURSIVE ExtendBuf(_, _, _)
ExtendBuf(b, l, seq) ==
    IF seq = <<>> THEN b
    ELSE ExtendBuf(PushUnchecked(Reserve(b, l, 1), l, Head(seq)), l + 1, Tail(seq))

\* the allocator calls of those pushes
RECURSIVE ExtendCalls(_, _, _)
ExtendCalls(b, l, n) ==
    IF n = 0 THEN <<>>
    ELSE ReserveCalls(b, l, 1) \o ExtendCalls(Reserve(b, l, 1), l + 1, n - 1)

Extend(seq) ==
    /\ mode = "array"
    /\ seq # <<>>
    /\ len + Len(seq) <= MaxLen
    /\ buf' = ExtendBuf(buf, len, seq)
    /\ len' = len + Len(seq)
    /\ Logs(OpRec("extend", NoVal, NoVal, "Ok", NoVal), <<>>, <<>>)
    /\ Ghost(NoTouch, ExtendCalls(buf, len, Len(seq)), 0)
    /\ input' = Pushed(seq)
    /\ UNCHANGED <<mode, dr, itStart>>

\* ---------------------------------------------------------------- Drain
BoundKinds == {"Unbounded", "Included", "Excluded"}

\* range.start_bound() resolved as drain does
StartBound(kind, n) ==
    IF kind = "Unbounded" THEN 0 ELSE IF kind = "Included" THEN n ELSE n + 1

\* range.end_bound() resolved as drain does
EndBound(kind, n, l) ==
    IF kind = "Unbounded" THEN l ELSE IF kind = "Included" THEN n + 1 ELSE n

\* Array::set_len(new_len): the length field becomes new_len
SetLen(new_len) == new_len

\* the indices a..b-1 in rising order, and in falling order
Range(a, b) == [i \in 1..Max(b - a, 0) |-> a + i - 1]
RevRange(a, b) == [i \in 1..Max(b - a, 0) |-> b - i]

SeqToSet(q) == {q[i] : i \in 1..Len(q)}

\* slot i does not hold a live element any more (moved out or dropped by this
\* iterator), or never did: reading or dropping it is undefined behaviour
Dead(i, rd, dp) ==
    i < 0 \/ i >= len \/ i >= cap \/ i \in SeqToSet(rd) \/ i \in SeqToSet(dp)

AnyDead(q, rd, dp) ==
    \E k \in 1..Len(q) :
        Dead(q[k], rd, dp) \/ \E j \in 1..(k - 1) : q[j] = q[k]

\* the cursors and logs of a Drain while one of its methods runs
DrainState ==
    [start |-> dr.start, end |-> dr.end, out |-> out, reads |-> reads,
     dropped |-> dropped, res |-> "None", val |-> NoVal, ub |-> FALSE]

\* Drain::next with the read taken one slot too far
DrNextMut(ds) ==
    IF ds.start >= ds.end THEN [ds EXCEPT !.res = "None", !.val = NoVal]
    ELSE [ds EXCEPT !.val = ReadSlot(buf, ds.start + 1),
                    !.res = "Some",
                    !.out = Append(@, ReadSlot(buf, ds.start + 1)),
                    !.reads = Append(@, ds.start + 1),
                    !.start = @ + 1]

\* Drain::next
DrNext(ds) ==
    IF ds.start >= ds.end THEN [ds EXCEPT !.res = "None", !.val = NoVal]
    ELSE [ds EXCEPT !.val = ReadSlot(buf, ds.start),
                    !.res = "Some",
                    !.ub = @ \/ Dead(ds.start, ds.reads, ds.dropped),
                    !.out = Append(@, ReadSlot(buf, ds.start)),
                    !.reads = Append(@, ds.start),
                    !.start = @ + 1]

\* Drain::next_back: the cursor is moved before the read
DrNextBack(ds) ==
    IF ds.start >= ds.end THEN [ds EXCEPT !.res = "None", !.val = NoVal]
    ELSE LET e1 == ds.end + 1
         IN  [ds EXCEPT !.end = e1,
                        !.val = ReadSlot(buf, e1),
                        !.res = "Some",
                        !.ub = @ \/ Dead(e1, ds.reads, ds.dropped),
                        !.out = Append(@, ReadSlot(buf, e1)),
                        !.reads = Append(@, e1)]

\* the loop of Drain::nth: for i in (start..end).take(n)
DrSkip(ds, n) ==
    LET skipped == Range(ds.start, Min(ds.end, ds.start + n))
    IN  [ds EXCEPT !.start = @ + Len(skipped),
                   !.ub = @ \/ AnyDead(skipped, ds.reads, ds.dropped),
                   !.dropped = @ \o skipped]

\* the loop of Drain::nth_back: for i in (start..end).rev().take(n)
DrSkipBack(ds, n) ==
    LET skipped == RevRange(Max(ds.start, ds.end - n), ds.end)
    IN  [ds EXCEPT !.end = @ - Len(skipped),
                   !.ub = @ \/ AnyDead(skipped, ds.reads, ds.dropped),
                   !.dropped = @ \o skipped]

DrainOp(start, end) ==
    /\ mode = "array"
    /\ IF start >= len \/ end > len
       THEN /\ Logs(OpRec("drain", start, end, "Panic", NoVal), <<>>, <<>>)
            /\ UNCHANGED <<mode, dr>>
       ELSE /\ mode' = "drain"
            /\ dr' = [hole_start |-> start, hole_end |-> end,
                      start |-> start, end |-> end]
            /\ Logs(OpRec("drain", start, end, "Ok", NoVal), <<>>, <<>>)
    /\ Ghost(NoTouch, <<>>, 0)
    /\ input' = NoInput
    /\ UNCHANGED <<buf, len, itStart>>

Drain(sk, sn, ek, en) == DrainOp(StartBound(sk, sn), EndBound(ek, en, len))

\* a method of the live Drain returned ds
DrainStep(name, n, ds) ==
    \E o \in Outcomes(ds.ub) :
        IF o = "abort"
        THEN /\ mode' = "aborted"
             /\ op' = OpRec(name, n, NoVal, "Abort", NoVal)
             /\ Ghost(NoTouch, <<>>, 0)
             /\ UNCHANGED <<buf, len, dr, itStart, orig, out, reads, dropped, used, input>>
        ELSE /\ mode' = IF ds.ub THEN "undefined" ELSE "drain"
             /\ dr' = [dr EXCEPT !.start = ds.start, !.end = ds.end]
             /\ op' = OpRec(name, n, NoVal, ds.res, ds.val)
             /\ out' = ds.out
             /\ reads' = ds.reads
             /\ dropped' = ds.dropped
             /\ used' = used \cup {name}
             /\ Ghost(NoTouch, <<>>, 0)
             /\ UNCHANGED <<buf, len, itStart, orig, input>>

DrainNext ==
    /\ mode = "drain"
    /\ DrainStep("next", NoVal, DrNext(DrainState))

DrainNth(n) ==
    /\ mode = "drain"
    /\ DrainStep("nth", n, DrNext(DrSkip(DrainState, n)))

DrainNextBack ==
    /\ mode = "drain"
    /\ DrainStep("next_back", NoVal, DrNextBack(DrainState))

DrainNthBack(n) ==
    /\ mode = "drain"
    /\ DrainStep("nth_back", n, DrNextBack(DrSkipBack(DrainState, n)))

\* Drop for Drain
DrainDrop ==
    /\ mode = "drain"
    /\ LET full_len == len
           rest == Range(dr.start, dr.end)
           count == full_len - dr.hole_end
           ub == \/ AnyDead(rest, reads, dropped)
                 \/ CopyOutOfBounds(buf, dr.hole_end, dr.hole_start, count)
           \* an element outside the hole was moved out or dropped, or the tail
           \* was copied over itself: the array holds elements it does not own
           torn == \/ dr.hole_start > dr.hole_end
                   \/ \E i \in SeqToSet(reads) \cup SeqToSet(dropped \o rest) :
                          i < dr.hole_start \/ i >= dr.hole_end
       IN  \E o \in Outcomes(ub) :
             IF o = "abort"
             THEN /\ mode' = "aborted"
                  /\ op' = OpRec("drain_drop", dr.hole_start, dr.hole_end, "Abort", NoVal)
                  /\ Ghost(NoTouch, <<>>, 0)
                  /\ UNCHANGED <<buf, len, dr, itStart, orig, out, reads, dropped, used, input>>
             ELSE /\ mode' = After(ub \/ torn)
                  /\ buf' = Forget(PtrCopy(buf, dr.hole_end, dr.hole_start, count),
                                   dr.hole_start + count)
                  /\ len' = SetLen(dr.hole_start + count)
                  /\ dropped' = dropped \o rest
                  /\ op' = OpRec("drain_drop", dr.hole_start, dr.hole_end, "Ok", NoVal)
                  /\ dr' = NoDrain
                  /\ Ghost(NoTouch, <<>>, 0)
                  /\ input' = NoInput
                  /\ UNCHANGED <<itStart, orig, out, reads, used>>

\* ---------------------------------------------------------------- IntoIter
\* the cursors and logs of an IntoIter while one of its methods runs;
\* len is storage.len
IterState ==
    [start |-> itStart, len |-> len, out |-> out, reads |-> reads,
     dropped |-> dropped, res |-> "None", val |-> NoVal]

\* IntoIter::next
ItNext(is) ==
    IF is.start >= is.len THEN [is EXCEPT !.res = "None", !.val = NoVal]
    ELSE [is EXCEPT !.val = ReadSlot(buf, is.start),
                    !.res = "Some",
                    !.out = Append(@, ReadSlot(buf, is.start)),
                    !.reads = Append(@, is.start),
                    !.start = @ + 1]

\* next_back reading at the length before it is lowered
ItNextBackMut(is) ==
    IF is.start >= is.len THEN [is EXCEPT !.res = "None", !.val = NoVal]
    ELSE [is EXCEPT !.len = @ - 1,
                    !.val = ReadSlot(buf, is.len),
                    !.res = "Some",
                    !.out = Append(@, ReadSlot(buf, is.len)),
                    !.reads = Append(@, is.len)]

\* IntoIter::next_back: pop_unchecked on the owned storage
ItNextBack(is) ==
    IF is.start >= is.len THEN [is EXCEPT !.res = "None", !.val = NoVal]
    ELSE [is EXCEPT !.len = @ - 1,
                    !.val = ReadSlot(buf, is.len - 1),
                    !.res = "Some",
                    !.out = Append(@, ReadSlot(buf, is.len - 1)),
                    !.reads = Append(@, is.len - 1)]

\* the skip of IntoIter::nth: start moves to min(start + n, len)
ItSkip(is, n) ==
    LET new_start == Min(is.start + n, is.len)
    IN  [is EXCEPT !.start = new_start,
                   !.dropped = @ \o Range(is.start, new_start)]

\* a skip from the back that lowers the length and drops nothing
ItSkipBackMut(is, n) ==
    [is EXCEPT !.len = Max(Max(is.len - n, 0), is.start)]

\* the skip of IntoIter::nth_back: len moves to max(len - n, start)
ItSkipBack(is, n) ==
    LET new_len == Max(Max(is.len - n, 0), is.start)
    IN  [is EXCEPT !.len = new_len,
                   !.dropped = @ \o Range(new_len, is.len)]

\* IntoIter::nth
ItNth(is, n) == ItNext(ItSkip(is, n))

\* IntoIter::nth_back: after the skip it calls next
ItNthBack(is, n) == ItNext(ItSkipBack(is, n))

IntoIter ==
    /\ mode = "array"
    /\ mode' = "iter"
    /\ itStart' = 0
    /\ Logs(OpRec("into_iter", NoVal, NoVal, "Ok", NoVal), <<>>, <<>>)
    /\ Ghost(NoTouch, <<>>, 0)
    /\ input' = KeepInput
    /\ UNCHANGED <<buf, len, dr>>

\* a method of the live IntoIter returned is
IterStep(name, n, is) ==
    /\ itStart' = is.start
    /\ len' = is.len
    /\ op' = OpRec(name, n, NoVal, is.res, is.val)
    /\ out' = is.out
    /\ reads' = is.reads
    /\ dropped' = is.dropped
    /\ used' = used \cup {name}
    /\ Ghost(NoTouch, <<>>, 0)
    /\ UNCHANGED <<mode, buf, dr, orig, input>>

IterNext ==
    /\ mode = "iter"
    /\ IterStep("next", NoVal, ItNext(IterState))

IterNth(n) ==
    /\ mode = "iter"
    /\ IterStep("nth", n, ItNth(IterState, n))

IterNextBack ==
    /\ mode = "iter"
    /\ IterStep("next_back", NoVal, ItNextBack(IterState))

IterNthBack(n) ==
    /\ mode = "iter"
    /\ IterStep("nth_back", n, ItNthBack(IterState, n))

\* the allocator call of Drop for IntoIter: none for a zero-sized T, else the
\* buffer is deallocated with the layout of its capacity
Release(z, b) == IF z THEN <<>> ELSE <<Call("deallocate", Len(b), NoVal)>>

\* Drop for IntoIter: nth(usize::MAX), then the buffer is released
IterDrop ==
    /\ mode = "iter"
    /\ LET is == ItNth(IterState, len)
       IN  /\ mode' = "dead"
           /\ buf' = <<>>
           /\ len' = 0
           /\ itStart' = 0
           /\ dropped' = is.dropped
           /\ op' = OpRec("iter_drop", NoVal, NoVal, "Ok", NoVal)
           /\ Ghost(NoTouch, Release(zst, buf), 0)
           /\ input' = NoInput
           /\ UNCHANGED <<dr, orig, out, reads, used>>

\* Drop for Array: the array is read into an IntoIter that is dropped at once
ArrayDrop ==
    /\ mode = "array"
    /\ mode' = "dead"
    /\ buf' = <<>>
    /\ len' = 0
    /\ Logs(OpRec("drop", NoVal, NoVal, "Ok", NoVal), <<>>, Range(0, len))
    /\ Ghost(NoTouch, Release(zst, buf), 0)
    /\ input' = NoInput
    /\ UNCHANGED <<dr, itStart>>

\* Array::new
New ==
    /\ mode = "dead"
    /\ mode' = "array"
    /\ buf' = NewBuf(zst)
    /\ len' = 0
    /\ Logs(OpRec("new", NoVal, NoVal, "Ok", NoVal), <<>>, <<>>)
    /\ touch' = NoTouch
    /\ al' = NoAlloc
    /\ room' = 0
    /\ zst' = zst
    /\ input' = NoInput
    /\ UNCHANGED <<dr, itStart>>

\* FromIterator::from_iter: Array::new, then extend
FromIter(seq) ==
    /\ mode = "dead"
    /\ mode' = "array"
    /\ buf' = ExtendBuf(NewBuf(zst), 0, seq)
    /\ len' = Len(seq)
    /\ Logs(OpRec("from_iter", NoVal, NoVal, "Ok", NoVal), <<>>, <<>>)
    /\ touch' = NoTouch
    /\ al' = Called(NoAlloc, ExtendCalls(NewBuf(zst), 0, Len(seq)))
    /\ room' = 0
    /\ zst' = zst
    /\ input' = seq
    /\ UNCHANGED <<dr, itStart>>

Next ==
    \/ \E n \in 0..MaxLen \cup HugeAdds : ReserveOp(n)
    \/ \E v \in Elems : Push(v)
    \/ \E v \in Elems : PushWithinCapacity(v)
    \/ Pop
    \/ \E i \in 0..MaxLen : Remove(i)
    \/ \E i \in 0..MaxLen + 1, v \in Elems : Insert(i, v)
    \/ \E a \in 0..MaxLen, b \in 0..MaxLen : Swap(a, b)
    \/ \E i \in 0..MaxLen : SwapRemove(i)
    \/ ShrinkToFit
    \/ \E dec \in [1..len -> BOOLEAN], p \in 0..len : Retain(dec, p)
    \/ \E seq \in SeqsUpTo(MaxLen) : Extend(seq)
    \/ \E sk \in BoundKinds, ek \in BoundKinds, sn \in 0..MaxLen + 1, en \in 0..MaxLen + 1 :
          Drain(sk, sn, ek, en)
    \/ DrainNext
    \/ \E n \in 0..MaxSkip : DrainNth(n)
    \/ DrainNextBack
    \/ \E n \in 0..MaxSkip : DrainNthBack(n)
    \/ DrainDrop
    \/ IntoIter
    \/ IterNext
    \/ \E n \in 0..MaxSkip : IterNth(n)
    \/ IterNextBack
    \/ \E n \in 0..MaxSkip : IterNthBack(n)
    \/ IterDrop
    \/ ArrayDrop
    \/ New
    \/ \E seq \in SeqsUpTo(MaxLen) : FromIter(seq)

Spec == Init /\ [][Next]_vars

\* ---------------------------------------------------------------- claims
Last(q) == q[Len(q)]
Reverse(q) == [i \in 1..Len(q) |-> q[Len(q) + 1 - i]]
OnlyUsed(names) == used \subseteq names

\* C1: a Drain over [s, e), s <= e, asked only next(): the k values it has
\* handed out are original[s], ..., original[s+k-1] in that order, next()
\* answers None only when all e-s were handed out, and once the Drain is
\* dropped the array is original[0..s) followed by original[e..L).
C1_DrainForwardThenClose ==
    /\ (mode = "drain" /\ dr.hole_start <= dr.hole_end /\ OnlyUsed({"next"}))
          => /\ Len(out) = dr.start - dr.hole_start
             /\ Len(out) <= dr.hole_end - dr.hole_start
             /\ out = SubSeq(orig, dr.hole_start + 1, dr.hole_start + Len(out))
             /\ (op.name = "next" /\ op.res = "Some") => op.val = Last(out)
             /\ (op.name = "next" /\ op.res = "None")
                    => Len(out) = dr.hole_end - dr.hole_start
    /\ (op.name = "drain_drop" /\ op.a <= op.b /\ OnlyUsed({"next"}))
          => /\ mode = "array"
             /\ op.res = "Ok"
             /\ out = SubSeq(orig, op.a + 1, op.a + Len(out))
             /\ Contents = SubSeq(orig, 1, op.a) \o SubSeq(orig, op.b + 1, Len(orig))
    /\ (mode \in {"undefined", "aborted"} /\ op.name = "next")
          => ~(dr.hole_start <= dr.hole_end /\ OnlyUsed({"next"}))

\* a Drain over two of three elements dropped after one next()
C1_Witness ==
    /\ mode = "array"
    /\ op.name = "drain_drop"
    /\ used = {"next"}
    /\ Len(out) = 1
    /\ op.b - op.a = 2
    /\ Len(orig) = 3

DrainCalls == {"next", "nth", "next_back", "nth_back"}
Count(q, v) == Cardinality({i \in 1..Len(q) : q[i] = v})
NoRepeat(q) == \A i \in 1..Len(q) : \A j \in 1..Len(q) : q[i] = q[j] => i = j

\* C2: a next_back() of a Drain that returns an element returns the one at
\* index end-1, the last not yet yielded, and leaves end one lower; it never
\* returns an element at or past the end of the drained range.
C2_NextBackYieldsLast ==
    (op.name = "next_back" /\ mode \in {"drain", "undefined", "aborted"})
        => /\ op.res # "Abort"
           /\ op.res = "Some"
                 => /\ dr.end < dr.hole_end
                    /\ Last(reads) = dr.end
                    /\ op.val = orig[dr.end + 1]

\* C3: whatever next, nth, next_back and nth_back calls a Drain over
\* [hole_start, hole_end) gets, it moves out or drops only elements of that
\* range and none twice, and when it is dropped every element of the range
\* was moved out or dropped exactly once and the length is
\* hole_start + (L - hole_end).
C3_DrainedExactlyOnce ==
    /\ (mode \in {"drain", "undefined"} /\ op.name \in DrainCalls
                                       /\ dr.hole_start <= dr.hole_end)
          => /\ NoRepeat(reads \o dropped)
             /\ \A i \in SeqToSet(reads \o dropped) :
                    dr.hole_start <= i /\ i < dr.hole_end
    /\ (mode = "aborted" /\ op.name \in DrainCalls \cup {"drain_drop"})
          => dr.hole_start > dr.hole_end
    /\ (op.name = "drain_drop" /\ op.res = "Ok" /\ op.a <= op.b)
          => /\ NoRepeat(reads \o dropped)
             /\ SeqToSet(reads \o dropped) = op.a..(op.b - 1)
             /\ len = op.a + (Len(orig) - op.b)

\* C4: drain(range) panics exactly when the resolved start or the resolved
\* end is greater than the length, and returns a Drain otherwise.
C4_DrainPanicsOnlyPastLen ==
    op.name = "drain"
        => /\ op.res \in {"Ok", "Panic"}
           /\ op.res = "Panic" <=> (op.a > len \/ op.b > len)

\* C5: insert(idx, x) with idx <= L returns Ok and leaves
\* original[0..idx), x, original[idx..L); with idx > L it returns Err(x) and
\* contents, length and capacity are as before.
C5_InsertContract ==
    op.name = "insert"
        => LET L == Len(orig)
           IN  IF op.a <= L
               THEN /\ op.res = "Ok"
                    /\ len = L + 1
                    /\ Contents = SubSeq(orig, 1, op.a) \o <<op.val>>
                                     \o SubSeq(orig, op.a + 1, L)
               ELSE /\ op.res = "Err"
                    /\ Contents = orig
                    /\ cap = op.cap0

\* the elements of q at the indices below r whose answer in dec is TRUE
RECURSIVE Kept(_, _, _)
Kept(q, dec, r) ==
    IF r = 0 THEN <<>>
    ELSE IF dec[r] THEN Append(Kept(q, dec, r - 1), q[r]) ELSE Kept(q, dec, r - 1)

\* C6: retain leaves the elements the predicate accepted, in their order, and
\* drops each rejected element once; when the predicate panics at index r
\* the elements of [r, L) are each dropped once as well, no accepted element
\* is dropped, and the length is the number of elements accepted before r.
C6_RetainKeepsAndDropsOnce ==
    op.name = "retain"
        => LET L == Len(orig)
               r == IF op.res = "Panic" THEN op.a ELSE L
           IN  /\ op.res \in {"Ok", "Panic"}
               /\ op.res = "Panic" <=> op.a < L
               /\ Contents = Kept(orig, op.dec, r)
               /\ len = Cardinality({i \in 1..r : op.dec[i]})
               /\ NoRepeat(dropped)
               /\ SeqToSet(dropped) =
                     {i \in 0..(r - 1) : ~op.dec[i + 1]} \cup r..(L - 1)
               /\ reads = <<>>

\* the predicate accepts index 0, rejects index 1 and panics at index 2
C6_Witness ==
    /\ op.name = "retain"
    /\ op.res = "Panic"
    /\ Len(orig) = 3
    /\ op.a = 2
    /\ op.dec[1]
    /\ ~op.dec[2]
    /\ dropped = <<1, 2>>
    /\ len = 1

\* C7: remove(idx) with idx < L returns original[idx] and leaves
\* original[0..idx) followed by original[idx+1..L); with idx >= L it returns
\* None and leaves the array as it was.
C7_RemoveContract ==
    op.name = "remove"
        => LET L == Len(orig)
           IN  IF op.a < L
               THEN /\ op.res = "Some"
                    /\ op.val = orig[op.a + 1]
                    /\ len = L - 1
                    /\ Contents = SubSeq(orig, 1, op.a) \o SubSeq(orig, op.a + 2, L)
               ELSE /\ op.res = "None"
                    /\ Contents = orig
                    /\ cap = op.cap0

\* the middle one of three elements, different from its successor, is removed
C7_Witness ==
    /\ op.name = "remove"
    /\ op.res = "Some"
    /\ op.a = 1
    /\ Len(orig) = 3
    /\ orig[2] # orig[3]

\* C8: swap_remove(idx) with idx < L returns original[idx], leaves L-1
\* elements that are the original ones less the returned one, with the former
\* last element at idx when idx < L-1; with idx >= L it returns None and
\* leaves the array as it was.
C8_SwapRemoveContract ==
    op.name = "swap_remove"
        => LET L == Len(orig)
           IN  IF op.a < L
               THEN /\ op.res = "Some"
                    /\ op.val = orig[op.a + 1]
                    /\ len = L - 1
                    /\ \A v \in Val :
                          Count(Contents, v) =
                              Count(orig, v) - (IF v = op.val THEN 1 ELSE 0)
                    /\ op.a < L - 1 => Contents[op.a + 1] = orig[L]
               ELSE /\ op.res = "None"
                    /\ Contents = orig
                    /\ cap = op.cap0

\* C9: after k pushes onto an empty array, the pops return the pushed values
\* in reverse order, the array is empty after k of them, and a pop after
\* that returns None and changes nothing.
C9_PopsReversePushes ==
    (op.name = "pop" /\ input # NoInput)
        => LET k == Len(input)
               j == Len(out)
           IN  /\ j <= k
               /\ len = k - j
               /\ \A i \in 1..j : out[i] = input[k + 1 - i]
               /\ op.res \in {"Some", "None"}
               /\ op.res = "Some" => (j >= 1 /\ op.val = out[j])
               /\ op.res = "None" => (j = k /\ Contents = orig /\ cap = op.cap0)

\* three values pushed, three popped, and one more pop
C9_Witness ==
    /\ op.name = "pop"
    /\ op.res = "None"
    /\ input # NoInput
    /\ Len(input) = 3
    /\ input[1] # input[3]
    /\ Len(out) = 3

\* C10: an array built from a sequence and consumed through its IntoIter
\* holds that sequence; next() alone hands it out in order, next_back() alone
\* in reverse order, and each answers None only after all of it.
C10_CollectThenIterate ==
    (mode = "iter" /\ input # NoInput)
        => /\ orig = input
           /\ OnlyUsed({"next"})
                 => /\ out = SubSeq(input, 1, Len(out))
                    /\ op.res = "None" => out = input
           /\ OnlyUsed({"next_back"})
                 => /\ Len(out) <= Len(input)
                    /\ out = SubSeq(Reverse(input), 1, Len(out))
                    /\ op.res = "None" => out = Reverse(input)

\* a sequence of three consumed from the back until None
C10_Witness ==
    /\ mode = "iter"
    /\ input # NoInput
    /\ Len(input) = 3
    /\ input[1] # input[3]
    /\ used = {"next_back"}
    /\ op.res = "None"
    /\ Len(out) = 3

\* C11: after reserve(n) has returned on an array of length L the capacity is
\* at least L + n, and reserve called no allocator function when the capacity
\* already covered L + n; a push that a reserve before it still covers calls
\* neither allocate nor grow.
C11_ReserveCoversPushes ==
    /\ (op.name = "reserve" /\ op.res = "Ok")
          => /\ cap >= Len(orig) + op.a
             /\ op.cap0 >= Len(orig) + op.a => al.calls = <<>>
    /\ (op.name = "push" /\ op.b > 0) => al.calls = <<>>

\* C12: for a zero-sized element type no operation calls the allocator, the
\* capacity stays usize::MAX, and the length is what the calls made it: one
\* more after a push or an insert, one less after a pop or a remove that
\* returned an element, the same after reserve and shrink_to_fit, the
\* original length less the drained range after a Drain is dropped, the
\* elements neither yielded nor dropped while an owning iterator lives.
C12_ZstNoAllocation ==
    zst =>
       /\ al.calls = <<>> /\ al.blk = NoVal
       /\ mode # "dead" => cap = UsizeMax
       /\ (op.name \in {"push", "insert"} /\ op.res = "Ok") => len = Len(orig) + 1
       /\ (op.name \in {"pop", "remove"} /\ op.res = "Some") => len = Len(orig) - 1
       /\ op.name \in {"reserve", "shrink_to_fit"} => len = Len(orig)
       /\ (op.name = "drain_drop" /\ op.res = "Ok")
             => len = Len(orig) - Max(op.b - op.a, 0)
       /\ mode = "iter" => len - itStart = Len(orig) - Len(reads) - Len(dropped)
       /\ mode = "dead" => len = 0

\* C13: push, push_within_capacity, pop, insert, remove, swap, swap_remove
\* and retain read or drop only slots that held an element when the call
\* began, [0, len), and write only slots below the capacity (T not
\* zero-sized: a zero-sized slot has no bytes to access).
C13_AccessInBounds ==
    (~zst /\ op.name \in {"push", "push_within_capacity", "pop", "insert",
                          "remove", "swap", "swap_remove", "retain"})
        => /\ touch.rd \subseteq touch.live
           /\ \A i \in touch.wr : i >= 0 /\ i < touch.capAt

\* C14: the length never exceeds the capacity: in every state of a live
\* array, Drain or owning iterator that no undefined behaviour led to, and
\* after the drop of a Drain over any range that drain accepted.
C14_LenWithinCapacity ==
    /\ mode \notin {"dead", "undefined"} => len <= cap
    /\ (op.name = "drain_drop" /\ op.res = "Ok") => len <= cap

\* C15: while a Drain lives, from its creation to its drop, its cursors
\* satisfy hole_start <= start <= end <= hole_end <= original_len.
C15_DrainCursorsOrdered ==
    mode = "drain"
        => /\ dr.hole_start <= dr.start
           /\ dr.start <= dr.end
           /\ dr.end <= dr.hole_end
           /\ dr.hole_end <= Len(orig)

\* one call of next, nth, next_back or nth_back on the live Drain
C16_DrainCall ==
    (mode = "drain" /\ mode' \in {"drain", "undefined"} /\ op'.name \in DrainCalls)
        => /\ Len(reads') + Len(dropped') <= Max(dr.hole_end - dr.hole_start, 0)
           /\ Len(reads') + Len(dropped') > Len(reads) + Len(dropped)
                 => dr'.end - dr'.start < dr.end - dr.start
           /\ (dr.start = dr.end /\ op'.name \in {"next", "next_back"})
                 => op'.res = "None" /\ dr' = dr

\* C16: a Drain over a range of k elements yields or skips at most k elements
\* in all; every call that yields or skips an element leaves end - start
\* strictly smaller; once start = end every next and next_back returns None
\* and leaves the cursors as they were.
C16_DrainWindowShrinks == [][C16_DrainCall]_vars

\* C17: an owning iterator over an array of L elements keeps
\* start <= len <= L; the elements it still owns are exactly the slots
\* [start, len), every other slot was either yielded once or dropped once,
\* none both and none twice, and what it yielded is what the slot held; when
\* it is dropped, or when an array is dropped, each of the L elements has been
\* yielded exactly once or dropped exactly once.
C17_IterOwnsEachOnce ==
    /\ mode = "iter"
          => /\ itStart <= len /\ len <= Len(orig)
             /\ NoRepeat(reads \o dropped)
             /\ SeqToSet(reads \o dropped) = (0..(Len(orig) - 1)) \ (itStart..(len - 1))
             /\ Len(out) = Len(reads)
             /\ \A i \in 1..Len(reads) : out[i] = orig[reads[i] + 1]
    /\ (mode = "dead" /\ op.name \in {"iter_drop", "drop"})
          => /\ NoRepeat(reads \o dropped)
             /\ SeqToSet(reads \o dropped) = 0..(Len(orig) - 1)
             /\ op.name = "drop" => reads = <<>>

\* an iterator that yielded from the front, skipped and yielded at the back
\* and was dropped with an element left
C17_Witness ==
    /\ mode = "dead" /\ op.name = "iter_drop"
    /\ {"next", "nth_back"} \subseteq used
    /\ Len(orig) >= 3
    /\ Len(reads) >= 2
    /\ Len(dropped) >= 1

IsPow2(n) == n >= 1 /\ NextPow2(n) = n

\* C18: for an element type that is not zero-sized, once reserve or a push
\* has grown the buffer the capacity is a power of two in every later state
\* of the array, whatever is called on it, and every growth leaves the
\* capacity at the smallest power of two >= len + additional.
C18_CapacityPowerOfTwo ==
    ~zst =>
       /\ (al.grown /\ mode # "dead") => IsPow2(cap)
       /\ (op.name = "reserve" /\ op.res = "Ok" /\ al.calls # <<>>)
             => cap = NextPow2(Len(orig) + op.a)
       /\ (op.name \in {"push", "insert"} /\ op.res = "Ok" /\ al.calls # <<>>)
             => cap = NextPow2(Len(orig) + 1)

\* C19: for an element type that is not zero-sized every grow, shrink and
\* deallocate is handed a block the allocator returned and that is still
\* held, with the layout of its current capacity, and every block is given
\* back exactly once: no deallocate of the never-allocated buffer of
\* capacity 0, no block released twice, none left behind by a new allocate or
\* held after the array is gone.
C19_AllocatorBalanced ==
    ~zst =>
       /\ al.bad = {}
       /\ (mode \in {"array", "drain", "iter"} /\ al.blk # NoVal) => al.blk = cap
       /\ mode = "dead" => al.blk = NoVal

\* one call of nth_back(n) on the live owning iterator with m elements left
C20_NthBackCall ==
    (mode = "iter" /\ mode' = "iter" /\ op'.name = "nth_back")
        => LET m == len - itStart
               n == op'.a
           IN  IF n < m
               THEN /\ op'.res = "Some"
                    /\ op'.val = orig[len - n]
                    /\ itStart' = itStart
                    /\ len' = len - n - 1
                    /\ dropped' = dropped \o Range(len - n, len)
               ELSE /\ op'.res = "None"
                    /\ len' = itStart'
                    /\ SeqToSet(dropped') = SeqToSet(dropped) \cup (itStart..(len - 1))

\* C20: nth_back(n) of an owning iterator with m elements left drops exactly
\* the last n of them and returns the (n+1)-th from the back, leaving start
\* where it was, when n < m; when n >= m it drops all that is left and
\* returns None.
C20_NthBackFromTheBack == [][C20_NthBackCall]_vars

====
